---- MODULE Spec2Model ----
(***************************************************************************)
(* Model of SystemGroup (ioc-satt-dev/db/system.py): the recalculation     *)
(* pipeline of the solid attenuator IOC.                                   *)
(*                                                                         *)
(* The run putter and run_calculation are coroutines.  Each client that    *)
(* writes Run gets its own invocation of the putter; an invocation can be  *)
(* suspended at every `await`, and the others (further putters, the energy *)
(* listener, plain client writes) run in between.  One action of the model *)
(* is the code from the return of one await to the point where the next    *)
(* await has stored its value and is suspended; an await that is suspended *)
(* returns, or it raises.                                                  *)
(*                                                                         *)
(* Transmissions are fixed-point numbers: a per-filter transmission is a   *)
(* number of 1/Scale, a whole-system transmission (a product over all      *)
(* NumFilters filters) a number of 1/Unit, Unit = Scale^NumFilters.        *)
(***************************************************************************)
EXTENDS Integers, Sequences, FiniteSets, TLC

(* ------------------------------ bounds -------------------------------- *)
\* writes to Run, and operations of the environment in all (writes to Run,
\* feed events, other client writes, filter motion)
MaxPuts == 2
MaxOps == 4
MaxEnergy == 2
NumFilters == 2

\* every write to Run is served by its own invocation of the putter
Clients == 1..MaxPuts
Filters == 1..NumFilters
Energies == 0..MaxEnergy
States == {0, 1}
Bool == {"False", "True"}
DesiredValues == {2, 5}

(* ------------------- filters, aggregator, search ---------------------- *)
Scale == 10
MinEnergy == 1

RECURSIVE Pow(_, _)
Pow(b, n) == IF n = 0 THEN 1 ELSE b * Pow(b, n - 1)

Unit == Pow(Scale, NumFilters)

Min(a, b) == IF a < b THEN a ELSE b

\* FilterModel.transmissionAt(state, energy): state 0 is "out".
transmissionAt(f, s, e) ==
    IF s = 0 THEN Scale
    ELSE Min(Scale - 1, e + (IF f % 2 = 1 THEN 4 ELSE 1))

\* set_photon_energy fails with OutOfRange outside the supported range.
InRange(e) == e >= MinEnergy

RECURSIVE Product(_, _)
Product(t, n) == IF n = 0 THEN 1 ELSE t[n] * Product(t, n - 1)

\* parent.calculate_transmission(): product over the filters' current states
calculate_transmission(fEnergy, fIn) ==
    Product([f \in Filters |-> transmissionAt(f, fIn[f], fEnergy[f])],
            NumFilters)

\* parent.calculate_transmission_3omega(): the same at three times the energy
calculate_transmission_3omega(fEnergy, fIn) ==
    Product([f \in Filters |-> transmissionAt(f, fIn[f], 3 * fEnergy[f])],
            NumFilters)

\* parent.all_transmissions: every filter's cached per-state transmissions
all_transmissions(fEnergy) ==
    [f \in Filters |-> [s \in States |-> transmissionAt(f, s, fEnergy[f])]]

Candidates == [Filters -> States]

CandidateTransmission(all_t, cand) ==
    Product([f \in Filters |-> all_t[f][cand[f]]], NumFilters)

RECURSIVE Inserted(_, _)
Inserted(cand, n) ==
    IF n = 0 THEN 0 ELSE (IF cand[n] # 0 THEN 1 ELSE 0) + Inserted(cand, n - 1)

RECURSIVE LexLess(_, _, _)
LexLess(a, b, i) ==
    IF i > NumFilters THEN FALSE
    ELSE IF a[i] # b[i] THEN a[i] < b[i]
    ELSE LexLess(a, b, i + 1)

\* tie-break: fewer filters inserted, then the lowest state vector
Preferred(a, b) ==
    \/ Inserted(a, NumFilters) < Inserted(b, NumFilters)
    \/ /\ Inserted(a, NumFilters) = Inserted(b, NumFilters)
       /\ LexLess(a, b, 1)

\* scaled value of a desired transmission given in 1/Scale
DesiredScaled(d) == d * Pow(Scale, NumFilters - 1)

\* calculator.get_best_config(all_transmissions, t_des, mode)
get_best_config(all_t, d, mode) ==
    LET T(c) == CandidateTransmission(all_t, c)
        tdes == DesiredScaled(d)
        adm == IF mode = "Floor" THEN {c \in Candidates : T(c) <= tdes}
               ELSE {c \in Candidates : T(c) >= tdes}
        \* wantMax: pick the largest transmission of the pool
        wantMax == (mode = "Floor") = (adm # {})
        pool == IF adm # {} THEN adm ELSE Candidates
        best == {c \in pool : \A o \in pool :
                     IF wantMax THEN T(o) <= T(c) ELSE T(o) >= T(c)}
        sel == CHOOSE c \in best : \A o \in best : o = c \/ Preferred(c, o)
    IN  [filter_states |-> sel, transmission |-> T(sel)]

NoConfig == [filter_states |-> [f \in Filters |-> 0], transmission |-> 0]

(* ------------------------------- state -------------------------------- *)
VARIABLES
    \* pvproperties of SystemGroup
    calculated_transmission, calculated_transmission_3omega,
    calculated_transmission_error, running, mirror_in, calc_mode,
    energy_source, best_config, active_config, energy_actual, energy_custom,
    energy_calc, desired_transmission, run,
    \* parent.filters: energy of the last set_photon_energy, current state
    filterEnergy, filterIn,
    \* one invocation of the run putter per client: position, the putter's
    \* `value`, run_calculation's `energy`, loop position, `config`, the
    \* t_des argument of get_best_config, and how the putter ended (returned
    \* or raised to the writer, and the exception that ended its pass)
    pc, value, energy, idx, config, t_des, status,
    \* the other arguments of that call of get_best_config (all_transmissions
    \* and mode), and the steps the invocation's pass has completed, in order
    search_in, trace,
    \* self.log: number of pass records (log.info) and of log.exception
    passLogs, excLogs,
    \* counters: Run writes per written value, run_calculation calls, and
    \* the events of the environment (feed events, other client writes,
    \* filter motion)
    nputs, started, events,
    \* history of the invocation's pass: the value of Run when it started and
    \* whether one of its writes has changed the value of a published output
    pass_hist,
    \* history of the feed: the value of the most recent data event and
    \* whether the listener wrote energy_actual for the most recent event
    feed_hist

pvs == <<calculated_transmission, calculated_transmission_3omega,
         calculated_transmission_error, running, mirror_in, calc_mode,
         energy_source, best_config, active_config, energy_actual,
         energy_custom, energy_calc, desired_transmission, run>>
locals == <<pc, value, energy, idx, config, t_des, status, search_in, trace>>
logs == <<passLogs, excLogs>>
vars == <<pvs, filterEnergy, filterIn, locals, logs,
          nputs, started, events, pass_hist, feed_hist>>

Outputs == <<calculated_transmission, calculated_transmission_3omega,
             best_config, calculated_transmission_error, energy_calc>>

inputs == <<running, mirror_in, calc_mode, energy_source, active_config,
            energy_actual, energy_custom, desired_transmission, filterIn>>

NoHist == [run |-> "none", changed |-> FALSE]

NoSearch == [all_t |-> <<>>, mode |-> "none"]

NoStatus == [how |-> "none", exc |-> "none"]

Init ==
    /\ calculated_transmission = Unit \div 10
    /\ calculated_transmission_3omega = Unit \div 2
    /\ calculated_transmission_error = Unit \div 10
    /\ running = "False"
    /\ mirror_in = "False"
    /\ calc_mode = "Floor"
    /\ energy_source = "Actual"
    /\ best_config = [f \in Filters |-> 0]
    /\ active_config = [f \in Filters |-> 0]
    /\ energy_actual = 0
    /\ energy_custom = 0
    /\ energy_calc = 0
    /\ desired_transmission = 5
    /\ run = "False"
    /\ filterEnergy = [f \in Filters |-> 0]
    /\ filterIn = [f \in Filters |-> 0]
    /\ pc = [c \in Clients |-> "idle"]
    /\ value = [c \in Clients |-> "False"]
    /\ energy = [c \in Clients |-> 0]
    /\ idx = [c \in Clients |-> 0]
    /\ config = [c \in Clients |-> NoConfig]
    /\ t_des = [c \in Clients |-> 0]
    /\ status = [c \in Clients |-> NoStatus]
    /\ passLogs = 0
    /\ excLogs = 0
    /\ nputs = [v \in Bool |-> 0]
    /\ started = 0
    /\ events = 0
    /\ pass_hist = [c \in Clients |-> NoHist]
    /\ search_in = [c \in Clients |-> NoSearch]
    /\ trace = [c \in Clients |-> <<>>]
    /\ feed_hist = [last_data |-> 0, wrote |-> FALSE]

(* --------------------- the run putter, lines 208-216 ------------------ *)
\* The awaits a pass can be suspended at: lines 173, 178, 180-182, 183-185,
\* 193 and 194-196.  The position names the code that runs when the await
\* returns: at "filters" the pass is suspended in the write of energy_calc
\* or in the set_photon_energy of the filter before, ..., at "log_info" in
\* the write of T_CALC_ERROR.
PassSteps ==
    {"filters", "T_CALC", "T_3OMEGA", "best_config", "T_CALC_ERROR", "log_info"}

\* What an awaited step can raise: an Exception, or a BaseException that is
\* no Exception (asyncio.CancelledError when the putter's task is cancelled,
\* KeyboardInterrupt, SystemExit, GeneratorExit).
ExcKinds == {"Exception", "BaseException"}

\* mutant: the putter starts a pass only when Run does not hold 'True' yet
ShouldRun_edge(v) == v # "False" /\ run # "True"

\* mutant: the test of the putter inverted
ShouldRun_inverted(v) == v # "True"

\* `if value == 'False': return`
ShouldRun(v) == v # "False"

\* mutant: the putter has no handler
HandleException_reraise(k) == "raised"

\* `except Exception: self.log.exception(...)`: how the putter ends when a
\* step of run_calculation raises k.  Only an Exception is caught.
HandleException(k) == IF k = "Exception" THEN "returned" ELSE "raised"

\* energy = {'Actual': ..., 'Custom': ...}[self.energy_source.value]
ResolveEnergy ==
    IF energy_source = "Actual" THEN energy_actual ELSE energy_custom

\* mutant: the loop reads the selected energy again for every filter
FilterEnergyArg_reread(c) == ResolveEnergy

\* the energy handed to filter.set_photon_energy, line 178
FilterEnergyArg(c) == energy[c]

\* the value written to T_CALC_ERROR, lines 194-196
ErrorValue(c) ==
    config[c].transmission - DesiredScaled(desired_transmission)

\* mutant: the search is always asked for the ceiling
SearchMode_ceiling == "Ceiling"

\* mutant: the search is always asked for the floor
SearchMode_floor == "Floor"

\* mode=self.calc_mode.value, line 191
SearchMode == calc_mode

\* history: the pass of invocation c has completed a step
Did(c, step) == trace' = [trace EXCEPT ![c] = Append(@, step)]

\* history: the pass of invocation c has written an output
Wrote(c, old, new) ==
    pass_hist' = [pass_hist EXCEPT ![c].changed = @ \/ old # new]

\* run_calculation's frame is gone once the putter has ended
ClearLocals(c) ==
    /\ value' = [value EXCEPT ![c] = "False"]
    /\ energy' = [energy EXCEPT ![c] = 0]
    /\ idx' = [idx EXCEPT ![c] = 0]
    /\ config' = [config EXCEPT ![c] = NoConfig]
    /\ t_des' = [t_des EXCEPT ![c] = 0]
    /\ search_in' = [search_in EXCEPT ![c] = NoSearch]
    /\ trace' = [trace EXCEPT ![c] = <<>>]
    /\ pass_hist' = [pass_hist EXCEPT ![c] = NoHist]

\* mutant: the putter that has ended is not available again
PutterReturns_latched(c, v) ==
    /\ pc' = [pc EXCEPT ![c] = "ended"]
    /\ status' = [status EXCEPT ![c] = [how |-> "returned", exc |-> "none"]]
    /\ run' = v

\* The putter returns: the server stores the written value in Run.
PutterReturns(c, v) ==
    /\ pc' = [pc EXCEPT ![c] = "idle"]
    /\ status' = [status EXCEPT ![c] = [how |-> "returned", exc |-> "none"]]
    /\ run' = v

\* A step of run_calculation raised k, lines 213-216: an exception that is
\* caught is logged, the putter returns and the server stores the written
\* value in Run; any other leaves the putter, nothing is logged and the
\* write of Run fails.
PutterExcept(c, v, k) ==
    /\ pc' = [pc EXCEPT ![c] = "idle"]
    /\ status' = [status EXCEPT ![c] = [how |-> HandleException(k), exc |-> k]]
    /\ IF HandleException(k) = "returned"
       THEN excLogs' = excLogs + 1 /\ run' = v
       ELSE UNCHANGED <<excLogs, run>>

TotalPuts == nputs["False"] + nputs["True"]

\* A client writes v to Run, invocation c: the putter runs up to its first
\* await (lines 209-214, 168-173), which stores LastPhotonEnergy_RBV and is
\* suspended, or raises.
run_putter(c, v) ==
    /\ TotalPuts < MaxPuts
    /\ TotalPuts + events < MaxOps
    /\ c = TotalPuts + 1
    /\ pc[c] = "idle"
    /\ nputs' = [nputs EXCEPT ![v] = @ + 1]
    /\ UNCHANGED <<calculated_transmission, calculated_transmission_3omega,
                   calculated_transmission_error, best_config, inputs,
                   filterEnergy, events, config, t_des, search_in,
                   passLogs, feed_hist>>
    /\ IF ~ShouldRun(v)
       THEN /\ PutterReturns(c, v)
            /\ UNCHANGED <<energy_calc, started, excLogs, value, energy,
                           idx, pass_hist, trace>>
       ELSE /\ started' = started + 1
            /\ \/ /\ energy_calc' = ResolveEnergy
                  /\ value' = [value EXCEPT ![c] = v]
                  /\ energy' = [energy EXCEPT ![c] = ResolveEnergy]
                  /\ idx' = [idx EXCEPT ![c] = 1]
                  /\ pass_hist' = [pass_hist EXCEPT ![c] =
                         [run |-> run, changed |-> energy_calc' # energy_calc]]
                  /\ pc' = [pc EXCEPT ![c] = "filters"]
                  /\ Did(c, "energy_calc")
                  /\ UNCHANGED <<run, status, excLogs>>
               \/ /\ \E k \in ExcKinds : PutterExcept(c, v, k)
                  /\ UNCHANGED <<energy_calc, value, energy, idx, pass_hist,
                                 trace>>

(* ----------------------- run_calculation, 167-206 --------------------- *)
\* mutant: the loop is left after the first filter
set_photon_energy_first_only(c) ==
    /\ pc[c] = "filters"
    /\ UNCHANGED <<Outputs, inputs, passLogs, nputs, started,
                   events, feed_hist>>
    /\ IF InRange(FilterEnergyArg(c))
       THEN /\ filterEnergy' =
                   [filterEnergy EXCEPT ![idx[c]] = FilterEnergyArg(c)]
            /\ pc' = [pc EXCEPT ![c] = "T_CALC"]
            /\ Did(c, "filter")
            /\ UNCHANGED <<run, status, excLogs, value, energy, idx, config,
                           t_des, search_in, pass_hist>>
       ELSE /\ PutterExcept(c, value[c], "Exception")
            /\ ClearLocals(c)
            /\ UNCHANGED filterEnergy

\* for filter in filters: await filter.set_photon_energy(energy), one filter
set_photon_energy(c) ==
    /\ pc[c] = "filters"
    /\ UNCHANGED <<Outputs, inputs, passLogs, nputs, started,
                   events, feed_hist>>
    /\ IF InRange(FilterEnergyArg(c))
       THEN /\ filterEnergy' =
                   [filterEnergy EXCEPT ![idx[c]] = FilterEnergyArg(c)]
            /\ IF idx[c] < NumFilters
               THEN /\ idx' = [idx EXCEPT ![c] = @ + 1]
                    /\ UNCHANGED pc
               ELSE /\ pc' = [pc EXCEPT ![c] = "T_CALC"]
                    /\ UNCHANGED idx
            /\ Did(c, "filter")
            /\ UNCHANGED <<run, status, excLogs, value, energy, config,
                           t_des, search_in, pass_hist>>
       ELSE /\ PutterExcept(c, value[c], "Exception")
            /\ ClearLocals(c)
            /\ UNCHANGED filterEnergy

\* mutant: the aggregate is computed for the best configuration instead of
\* the filters' current states
write_T_CALC_of_best(c) ==
    /\ pc[c] = "T_CALC"
    /\ calculated_transmission' =
           calculate_transmission(filterEnergy, best_config)
    /\ pc' = [pc EXCEPT ![c] = "T_3OMEGA"]
    /\ UNCHANGED <<calculated_transmission_3omega, best_config,
                   calculated_transmission_error, energy_calc, inputs, run,
                   filterEnergy, value, energy, idx, config, t_des,
                   search_in, status, logs, nputs, started, events,
                   feed_hist>>
    /\ Did(c, "T_CALC")
    /\ Wrote(c, calculated_transmission, calculated_transmission')

\* await self.calculated_transmission.write(calculate_transmission())
write_T_CALC(c) ==
    /\ pc[c] = "T_CALC"
    /\ calculated_transmission' = calculate_transmission(filterEnergy, filterIn)
    /\ pc' = [pc EXCEPT ![c] = "T_3OMEGA"]
    /\ UNCHANGED <<calculated_transmission_3omega, best_config,
                   calculated_transmission_error, energy_calc, inputs, run,
                   filterEnergy, value, energy, idx, config, t_des, search_in, status,
                   logs, nputs, started, events, feed_hist>>
    /\ Did(c, "T_CALC")
    /\ Wrote(c, calculated_transmission, calculated_transmission')

\* await self.calculated_transmission_3omega.write(...)
write_T_3OMEGA(c) ==
    /\ pc[c] = "T_3OMEGA"
    /\ calculated_transmission_3omega' =
           calculate_transmission_3omega(filterEnergy, filterIn)
    /\ pc' = [pc EXCEPT ![c] = "best_config"]
    /\ UNCHANGED <<calculated_transmission, best_config,
                   calculated_transmission_error, energy_calc, inputs, run,
                   filterEnergy, value, energy, idx, config, t_des, search_in, status,
                   logs, nputs, started, events, feed_hist>>
    /\ Did(c, "T_3OMEGA")
    /\ Wrote(c, calculated_transmission_3omega, calculated_transmission_3omega')

\* mutant: the selected configuration is also applied as the active one
write_best_config_applied(c) ==
    /\ pc[c] = "best_config"
    /\ t_des' = [t_des EXCEPT ![c] = desired_transmission]
    /\ config' = [config EXCEPT ![c] =
                     get_best_config(all_transmissions(filterEnergy),
                                     desired_transmission, SearchMode)]
    /\ search_in' = [search_in EXCEPT ![c] =
           [all_t |-> all_transmissions(filterEnergy), mode |-> SearchMode]]
    /\ best_config' = config'[c].filter_states
    /\ active_config' = config'[c].filter_states
    /\ pc' = [pc EXCEPT ![c] = "T_CALC_ERROR"]
    /\ UNCHANGED <<calculated_transmission, calculated_transmission_3omega,
                   calculated_transmission_error, energy_calc, running,
                   mirror_in, calc_mode, energy_source, energy_actual,
                   energy_custom, desired_transmission, filterIn, run,
                   filterEnergy, value, energy, idx, status,
                   logs, nputs, started, events, feed_hist>>
    /\ Did(c, "best_config")
    /\ Wrote(c, best_config, best_config')

\* config = get_best_config(...); await self.best_config.write(...)
write_best_config(c) ==
    /\ pc[c] = "best_config"
    /\ t_des' = [t_des EXCEPT ![c] = desired_transmission]
    /\ config' = [config EXCEPT ![c] =
                     get_best_config(all_transmissions(filterEnergy),
                                     desired_transmission, SearchMode)]
    /\ search_in' = [search_in EXCEPT ![c] =
           [all_t |-> all_transmissions(filterEnergy), mode |-> SearchMode]]
    /\ best_config' = config'[c].filter_states
    /\ pc' = [pc EXCEPT ![c] = "T_CALC_ERROR"]
    /\ UNCHANGED <<calculated_transmission, calculated_transmission_3omega,
                   calculated_transmission_error, energy_calc, inputs, run,
                   filterEnergy, value, energy, idx, status,
                   logs, nputs, started, events, feed_hist>>
    /\ Did(c, "best_config")
    /\ Wrote(c, best_config, best_config')

\* await self.calculated_transmission_error.write(...), lines 194-196
write_T_CALC_ERROR(c) ==
    /\ pc[c] = "T_CALC_ERROR"
    /\ calculated_transmission_error' = ErrorValue(c)
    /\ pc' = [pc EXCEPT ![c] = "log_info"]
    /\ UNCHANGED <<calculated_transmission, calculated_transmission_3omega,
                   best_config, energy_calc, inputs, run, filterEnergy,
                   value, energy, idx, config, t_des, search_in, status,
                   logs, nputs, started, events, feed_hist>>
    /\ Did(c, "T_CALC_ERROR")
    /\ Wrote(c, calculated_transmission_error, calculated_transmission_error')

\* The write of T_CALC_ERROR returns: self.log.info(...), lines 197-206;
\* run_calculation and the putter return.
log_info(c) ==
    /\ pc[c] = "log_info"
    /\ passLogs' = passLogs + 1
    /\ PutterReturns(c, value[c])
    /\ ClearLocals(c)
    /\ UNCHANGED <<Outputs, inputs, filterEnergy, excLogs, nputs, started,
                   events, feed_hist>>

\* The await a pass is suspended in raises k.
await_raises(c, k) ==
    /\ pc[c] \in PassSteps
    /\ PutterExcept(c, value[c], k)
    /\ ClearLocals(c)
    /\ UNCHANGED <<Outputs, inputs, filterEnergy, passLogs, nputs,
                   started, events, feed_hist>>

(* ------------------ the energy listener, lines 130-146 ---------------- *)
\* mutant: the listener also publishes the new energy as the energy used
energy_actual_startup_publish(event, eV) ==
    /\ TotalPuts + events < MaxOps
    /\ events' = events + 1
    /\ IF event = "connection"
       THEN /\ UNCHANGED <<energy_actual, energy_calc>>
            /\ feed_hist' = [feed_hist EXCEPT !.wrote = FALSE]
       ELSE /\ energy_actual' = eV
            /\ energy_calc' = eV
            /\ feed_hist' = [last_data |-> eV, wrote |-> energy_actual # eV]
    /\ UNCHANGED <<calculated_transmission, calculated_transmission_3omega,
                   best_config, calculated_transmission_error, running,
                   mirror_in, calc_mode, energy_source, active_config,
                   energy_custom, desired_transmission, filterIn, run,
                   filterEnergy, locals, logs, nputs, started, pass_hist>>

\* mutant: the `continue` of the connection branch is missing: the event's
\* payload is written as the energy
energy_actual_startup_no_continue(event, eV) ==
    /\ TotalPuts + events < MaxOps
    /\ events' = events + 1
    /\ IF event = "connection"
       THEN /\ energy_actual' = eV
            /\ feed_hist' = [feed_hist EXCEPT !.wrote = energy_actual # eV]
       ELSE IF energy_actual # eV
            THEN /\ energy_actual' = eV
                 /\ feed_hist' = [last_data |-> eV, wrote |-> TRUE]
            ELSE /\ UNCHANGED energy_actual
                 /\ feed_hist' = [last_data |-> eV, wrote |-> FALSE]
    /\ UNCHANGED <<Outputs, running, mirror_in, calc_mode, energy_source,
                   active_config, energy_custom, desired_transmission,
                   filterIn, run, filterEnergy, locals, logs, nputs, started,
                   pass_hist>>

energy_actual_startup(event, eV) ==
    /\ TotalPuts + events < MaxOps
    /\ events' = events + 1
    /\ IF event = "connection"
       THEN /\ UNCHANGED energy_actual
            /\ feed_hist' = [feed_hist EXCEPT !.wrote = FALSE]
       ELSE IF energy_actual # eV
            THEN /\ energy_actual' = eV
                 /\ feed_hist' = [last_data |-> eV, wrote |-> TRUE]
            ELSE /\ UNCHANGED energy_actual
                 /\ feed_hist' = [last_data |-> eV, wrote |-> FALSE]
    /\ UNCHANGED <<Outputs, running, mirror_in, calc_mode, energy_source,
                   active_config, energy_custom, desired_transmission,
                   filterIn, run, filterEnergy, locals, logs, nputs, started,
                   pass_hist>>

(* ------------- writes by clients and the motion of filters ------------ *)
\* These pvproperties have no putter: a write stores the value.  A write of
\* the value already held changes nothing and is left out.
EnvStep ==
    /\ TotalPuts + events < MaxOps
    /\ events' = events + 1
    /\ UNCHANGED <<Outputs, running, mirror_in, active_config, energy_actual,
                   run, filterEnergy, locals, logs, nputs, started,
                   pass_hist, feed_hist>>

write_calc_mode(m) ==
    /\ EnvStep
    /\ m # calc_mode
    /\ calc_mode' = m
    /\ UNCHANGED <<energy_source, energy_custom, desired_transmission,
                   filterIn>>

write_energy_source(s) ==
    /\ EnvStep
    /\ s # energy_source
    /\ energy_source' = s
    /\ UNCHANGED <<calc_mode, energy_custom, desired_transmission, filterIn>>

write_energy_custom(e) ==
    /\ EnvStep
    /\ e # energy_custom
    /\ energy_custom' = e
    /\ UNCHANGED <<calc_mode, energy_source, desired_transmission, filterIn>>

write_desired_transmission(d) ==
    /\ EnvStep
    /\ d # desired_transmission
    /\ desired_transmission' = d
    /\ UNCHANGED <<calc_mode, energy_source, energy_custom, filterIn>>

filter_moves(f) ==
    /\ EnvStep
    /\ filterIn' = [filterIn EXCEPT ![f] = 1 - @]
    /\ UNCHANGED <<calc_mode, energy_source, energy_custom,
                   desired_transmission>>

Next ==
    \/ \E c \in Clients, v \in Bool : run_putter(c, v)
    \/ \E c \in Clients : set_photon_energy(c)
    \/ \E c \in Clients : write_T_CALC(c)
    \/ \E c \in Clients : write_T_3OMEGA(c)
    \/ \E c \in Clients : write_best_config(c)
    \/ \E c \in Clients : write_T_CALC_ERROR(c)
    \/ \E c \in Clients : log_info(c)
    \/ \E c \in Clients, k \in ExcKinds : await_raises(c, k)
    \/ \E event \in {"connection", "data"}, eV \in Energies :
           energy_actual_startup(event, eV)
    \/ \E m \in {"Floor", "Ceiling"} : write_calc_mode(m)
    \/ \E s \in {"Actual", "Custom"} : write_energy_source(s)
    \/ \E e \in Energies : write_energy_custom(e)
    \/ \E d \in DesiredValues : write_desired_transmission(d)
    \/ \E f \in Filters : filter_moves(f)

Spec == Init /\ [][Next]_vars

\* A step of a pass in progress: an awaited operation returns or raises and
\* the event loop resumes the coroutine.
PassProgress ==
    \E c \in Clients :
        \/ set_photon_energy(c)
        \/ write_T_CALC(c)
        \/ write_T_3OMEGA(c)
        \/ write_best_config(c)
        \/ write_T_CALC_ERROR(c)
        \/ log_info(c)
        \/ \E k \in ExcKinds : await_raises(c, k)

\* Every awaited step of a pass returns or raises.
FairSpec == Spec /\ WF_vars(PassProgress)

TypeOK ==
    /\ pc \in [Clients -> {"idle"} \cup PassSteps]
    /\ energy_calc \in Energies
    /\ filterEnergy \in [Filters -> Energies]
    /\ best_config \in Candidates

(* ------------------------------ the claims ---------------------------- *)
\* the step is taken by invocation c, whose pass was in progress
PassStep(c) == pc[c] # "idle" /\ (pc'[c] # pc[c] \/ idx'[c] # idx[c])

\* the pass of invocation c ends in this step because a step raised
PassFails(c) == pc[c] # "idle" /\ pc'[c] = "idle" /\ passLogs' = passLogs

\* the step in which the pass of invocation c publishes T_CALC_ERROR
ErrorStep(c) == pc[c] = "T_CALC_ERROR" /\ pc'[c] = "log_info"

\* the pass of invocation c ends in this step with its log record
PassSucceeds(c) ==
    pc[c] # "idle" /\ pc'[c] = "idle" /\ passLogs' = passLogs + 1

\* the step is the listener processing one event of the feed: an event of
\* the environment that is no write by a client and no motion of a filter
ListenerStep ==
    /\ events' = events + 1
    /\ UNCHANGED <<calc_mode, energy_source, energy_custom,
                   desired_transmission, filterIn>>

\* C1: all-or-nothing publish: a pass that ends because one of its steps
\* raised has changed none of the published outputs T_CALC, T_3OMEGA,
\* BestConfiguration_RBV, T_CALC_ERROR and LastPhotonEnergy_RBV.
C1_AllOrNothing ==
    [][\A c \in Clients : PassFails(c) => ~pass_hist[c].changed]_vars

\* C2: single-flight: a 'True' written to Run while a pass is executing is
\* dropped: it starts no pass.
C2_SingleFlight ==
    [][started' = started + 1 => \A c \in Clients : pc[c] = "idle"]_vars

\* C3: mutual exclusion: in every reachable state at most one execution of
\* run_calculation is in progress.
C3_MutualExclusion ==
    Cardinality({c \in Clients : pc[c] # "idle"}) <= 1

\* C4: no torn read: when a pass computes the aggregate transmissions or
\* runs the configuration search, every filter was last refreshed at the
\* energy this pass resolved and recorded in LastPhotonEnergy_RBV.
C4_NoTornRead ==
    [][\A c \in Clients :
          (/\ pc[c] \in {"T_CALC", "T_3OMEGA", "best_config"}
           /\ pc'[c] \notin {pc[c], "idle"})
          => \A f \in Filters : filterEnergy[f] = energy[c]]_vars

\* C5 as claimed: no failure inside a pass propagates to the writer of Run:
\* whatever a step raises, the putter ends by returning.
C5_NoPropagation ==
    \A c \in Clients : status[c].how # "raised"

\* C5 as amended: the putter ends by returning, with one log.exception
\* record, for every Exception that a step of its pass raises; it raises to
\* the writer, with no record and Run not stored, exactly for what is no
\* Exception (cancellation of the task, KeyboardInterrupt, SystemExit).
C5_ExceptionsNeverPropagate ==
    /\ [](\A c \in Clients :
             /\ status[c].exc = "Exception" => status[c].how = "returned"
             /\ status[c].how = "raised" => status[c].exc = "BaseException")
    /\ [][\A c \in Clients :
             /\ status'[c].exc = "Exception" /\ status[c].exc = "none"
                   => excLogs' = excLogs + 1
             /\ status'[c].how = "raised" /\ status[c].how = "none"
                   => UNCHANGED <<run, logs>>]_vars

\* C5 witness: a pass has failed with an Exception and its putter has
\* returned, and the putter of a cancelled pass has raised.
C5_Witness ==
    /\ excLogs = 1
    /\ passLogs = 0
    /\ nputs["False"] = 0
    /\ \E c \in Clients :
           /\ pc[c] = "idle"
           /\ status[c] = [how |-> "returned", exc |-> "Exception"]
    /\ \E c \in Clients :
           /\ pc[c] = "idle"
           /\ status[c] = [how |-> "raised", exc |-> "BaseException"]

\* C6 as claimed: the trigger is edge-triggered: a pass starts only when Run
\* does not already hold 'True'.
C6_EdgeTriggered ==
    [][started' = started + 1 => run # "True"]_vars

\* C6 as amended: a pass starts exactly when 'True' is written to Run,
\* whatever value Run holds at that time.
C6_EveryTrueWriteStarts ==
    [][(nputs'["True"] = nputs["True"] + 1) <=> (started' = started + 1)]_vars

\* C6 witness: a pass is in progress that started while Run held 'True'.
C6_Witness ==
    \E c \in Clients : pc[c] # "idle" /\ pass_hist[c].run = "True"

\* C7: a write of 'False' to Run is a no-op: it starts no pass, refreshes no
\* filter, emits no log record and leaves the published outputs unchanged.
C7_FalseIsNoOp ==
    [][nputs'["False"] = nputs["False"] + 1
          => UNCHANGED <<Outputs, filterEnergy, logs, started, pc>>]_vars

\* C7 witness: a pass has published and the last putter to end since was a
\* write of 'False' (a pass that ends leaves 'True' in Run).
C7_Witness ==
    run = "False" /\ nputs["False"] > 0 /\ passLogs > 0

\* C8: a pass takes the energy once, when it starts, from the source the
\* selector names; it records that value in LastPhotonEnergy_RBV, applies
\* that value to every filter and keeps it while it is in progress.
C8_EnergySnapshot ==
    [][\A c \in Clients :
          /\ (pc[c] = "idle" /\ pc'[c] = "filters")
                => /\ energy_source = "Actual" => energy'[c] = energy_actual
                   /\ energy_source = "Custom" => energy'[c] = energy_custom
                   /\ energy_calc' = energy'[c]
          /\ (PassStep(c) /\ pc[c] = "filters" /\ pc'[c] # "idle")
                => filterEnergy' = [filterEnergy EXCEPT ![idx[c]] = energy[c]]
          /\ (pc[c] # "idle" /\ pc'[c] # "idle")
                => energy'[c] = energy[c]]_vars

\* C8 witness: a pass has refreshed every filter at the energy it took at
\* its start, and the selected energy has changed since.
C8_Witness ==
    \E c \in Clients :
        /\ pc[c] = "T_CALC"
        /\ ResolveEnergy # energy[c]
        /\ \A f \in Filters : filterEnergy[f] = energy[c]

\* C9: the listener never recalculates: processing a feed event leaves the
\* published outputs, the filters and the passes alone, and the outputs
\* change only in a step of a pass started by a write of 'True' to Run.
C9_ListenerNeverTriggers ==
    [][/\ ListenerStep
          => UNCHANGED <<Outputs, filterEnergy, started, pc, logs>>
       /\ Outputs' # Outputs
          => \E c \in Clients :
                \/ PassStep(c) /\ value[c] = "True"
                \/ /\ pc[c] = "idle" /\ pc'[c] = "filters"
                   /\ nputs'["True"] = nputs["True"] + 1]_vars

\* C9 witness: after a pass has published, the feed has delivered another
\* energy and LastPhotonEnergy_RBV still holds the energy of the pass.
C9_Witness ==
    /\ passLogs > 0
    /\ energy_source = "Actual"
    /\ energy_actual # energy_calc
    /\ \A c \in Clients : pc[c] = "idle"

\* C10: the T_CALC_ERROR that a pass publishes is the selected
\* configuration's transmission minus the desired transmission that the
\* pass handed to the configuration search.
C10_ErrorUsesSearchDesired ==
    [][\A c \in Clients :
          ErrorStep(c)
          => calculated_transmission_error'
                = config[c].transmission - DesiredScaled(t_des[c])]_vars

\* C11: every pass comes back to Idle: under the assumption that every
\* awaited step returns or raises, each pass in progress ends, by success or
\* by failure; and whatever passes have failed before, a write of 'True' to
\* Run is served by a new pass.
C11_ReturnsToIdle ==
    /\ \A c \in Clients : (pc[c] # "idle") ~> (pc[c] = "idle")
    /\ [](TotalPuts < MaxPuts /\ TotalPuts + events < MaxOps
            => ENABLED run_putter(TotalPuts + 1, "True"))

\* C11 witness: the only pass before has failed, and the pass of the next
\* 'True', started after that failure, has published T_CALC, T_3OMEGA and
\* BestConfiguration_RBV and T_CALC_ERROR and is about to emit its record.
C11_Witness ==
    /\ TotalPuts = 2
    /\ excLogs = 1
    /\ passLogs = 0
    /\ pc[2] = "log_info"
    /\ pass_hist[2].run = "True"

\* C12: a pass only reads its inputs: no step of a pass, successful or
\* failed, changes DesiredTransmission, CalcMode, EnergySource,
\* CustomPhotonEnergy, ActualPhotonEnergy_RBV, ActiveConfiguration_RBV,
\* MIRROR_IN or the current state of a filter.
C12_PassOnlyReadsInputs ==
    [][(\/ TotalPuts' # TotalPuts
        \/ \E c \in Clients : pc'[c] # pc[c] \/ idx'[c] # idx[c])
       => UNCHANGED <<desired_transmission, calc_mode, energy_source,
                      energy_custom, energy_actual, active_config,
                      mirror_in, filterIn>>]_vars

\* C12 witness: a pass has succeeded and a pass has failed, and the
\* configuration published as best is not the active one.
C12_Witness ==
    /\ passLogs > 0
    /\ excLogs > 0
    /\ best_config # active_config
    /\ \A c \in Clients : pc[c] = "idle"

\* C13: error sign: if the search of a pass was asked for the floor and some
\* candidate transmits at most the desired value, the T_CALC_ERROR that the
\* pass publishes is <= 0; if it was asked for the ceiling and some
\* candidate transmits at least the desired value, it is >= 0.
C13_ErrorSign ==
    [][\A c \in Clients :
          ErrorStep(c)
          => LET T(cand) == CandidateTransmission(search_in[c].all_t, cand)
                 tdes == DesiredScaled(t_des[c])
             IN  /\ (/\ search_in[c].mode = "Floor"
                     /\ \E cand \in Candidates : T(cand) <= tdes)
                       => calculated_transmission_error' <= 0
                 /\ (/\ search_in[c].mode = "Ceiling"
                     /\ \E cand \in Candidates : T(cand) >= tdes)
                       => calculated_transmission_error' >= 0]_vars

\* the step in which the pass of invocation c searches and publishes
SearchStep(c) == pc[c] = "best_config" /\ pc'[c] = "T_CALC_ERROR"

\* transmission of a state vector over the filters' cached transmissions
CachedTransmission(cand) ==
    CandidateTransmission(all_transmissions(filterEnergy), cand)

\* C14: floor correctness: when CalcMode is Floor and some candidate
\* transmits at most the desired value, the configuration published in
\* BestConfiguration_RBV transmits at most the desired value and no other
\* such candidate transmits more.
C14_FloorCorrect ==
    [][\A c \in Clients :
          (/\ SearchStep(c)
           /\ calc_mode = "Floor"
           /\ \E cand \in Candidates :
                 CachedTransmission(cand) <= DesiredScaled(desired_transmission))
          => /\ CachedTransmission(best_config')
                   <= DesiredScaled(desired_transmission)
             /\ \A cand \in Candidates :
                   CachedTransmission(cand)
                       <= DesiredScaled(desired_transmission)
                   => CachedTransmission(cand)
                          <= CachedTransmission(best_config')]_vars

\* C14 witness: a floor search has published a configuration that transmits
\* strictly less than desired.
C14_Witness ==
    \E c \in Clients :
        /\ pc[c] = "T_CALC_ERROR"
        /\ search_in[c].mode = "Floor"
        /\ best_config = config[c].filter_states
        /\ config[c].transmission < DesiredScaled(t_des[c])

\* C15: ceiling correctness: when CalcMode is Ceiling and some candidate
\* transmits at least the desired value, the configuration published in
\* BestConfiguration_RBV transmits at least the desired value and no other
\* such candidate transmits less.
C15_CeilingCorrect ==
    [][\A c \in Clients :
          (/\ SearchStep(c)
           /\ calc_mode = "Ceiling"
           /\ \E cand \in Candidates :
                 CachedTransmission(cand) >= DesiredScaled(desired_transmission))
          => /\ CachedTransmission(best_config')
                   >= DesiredScaled(desired_transmission)
             /\ \A cand \in Candidates :
                   CachedTransmission(cand)
                       >= DesiredScaled(desired_transmission)
                   => CachedTransmission(cand)
                          >= CachedTransmission(best_config')]_vars

\* C15 witness: a ceiling search has published a configuration that
\* transmits strictly more than desired and is not all filters out.
C15_Witness ==
    \E c \in Clients :
        /\ pc[c] = "T_CALC_ERROR"
        /\ search_in[c].mode = "Ceiling"
        /\ best_config = config[c].filter_states
        /\ best_config # [f \in Filters |-> 0]
        /\ config[c].transmission > DesiredScaled(t_des[c])

\* C16: the published aggregates do not depend on the search: T_CALC and
\* T_3OMEGA are the products of the filters' cached transmissions at their
\* current states, at the energy and at three times the energy; neither
\* DesiredTransmission nor CalcMode enters.
C16_AggregatesIndependent ==
    [][\A c \in Clients :
          /\ (pc[c] = "T_CALC" /\ pc'[c] = "T_3OMEGA")
                => calculated_transmission' =
                      Product([f \in Filters |->
                                  transmissionAt(f, filterIn[f], filterEnergy[f])],
                              NumFilters)
          /\ (pc[c] = "T_3OMEGA" /\ pc'[c] = "best_config")
                => calculated_transmission_3omega' =
                      Product([f \in Filters |->
                                  transmissionAt(f, filterIn[f],
                                                 3 * filterEnergy[f])],
                              NumFilters)]_vars

\* C16 witness: a pass has published both aggregates with DesiredTransmission
\* and CalcMode both changed from their defaults.
C16_Witness ==
    /\ calc_mode = "Ceiling"
    /\ desired_transmission # 5
    /\ \E c \in Clients : pc[c] = "best_config"

\* the order of the steps of a pass up to its log record
StepOrder ==
    <<"energy_calc">> \o [f \in Filters |-> "filter"]
        \o <<"T_CALC", "T_3OMEGA", "best_config", "T_CALC_ERROR">>

IsPrefix(t, u) == Len(t) <= Len(u) /\ t = SubSeq(u, 1, Len(t))

\* C17: step ordering: a pass writes LastPhotonEnergy_RBV, then refreshes
\* every filter, then writes T_CALC, then T_3OMEGA, then searches and writes
\* BestConfiguration_RBV, then writes T_CALC_ERROR; it emits its log record
\* only when all of these are done.
C17_StepOrder ==
    /\ [](\A c \in Clients :
             pc[c] # "idle" => trace[c] # <<>> /\ IsPrefix(trace[c], StepOrder))
    /\ [][\A c \in Clients : PassSucceeds(c) => trace[c] = StepOrder]_vars

\* C17 witness: a pass has done every step before its log record.
C17_Witness ==
    \E c \in Clients : pc[c] = "log_info" /\ trace[c] = StepOrder

\* C18: the Running indicator shows the state of the pipeline: it is 'True'
\* exactly while a pass is executing.
C18_RunningObservable ==
    (running = "True") <=> (\E c \in Clients : pc[c] # "idle")

\* C19: the listener tracks the feed: ActualPhotonEnergy_RBV holds the value
\* of the most recent data event (its initial value before the first); the
\* listener writes exactly when an event changes the value, so neither a
\* 'connection' event nor a data event with the value already held writes;
\* and a pass on the actual energy uses the last delivered value.
C19_ListenerTracking ==
    /\ [](energy_actual = feed_hist.last_data)
    /\ [][ListenerStep
             => (feed_hist'.wrote <=> energy_actual' # energy_actual)]_vars
    /\ [][\A c \in Clients :
             (pc[c] = "idle" /\ pc'[c] = "filters" /\ energy_source = "Actual")
             => energy'[c] = feed_hist.last_data]_vars

\* C19 witness: after a data event the feed has delivered an event for
\* which nothing was written, and a pass then runs on the delivered energy.
C19_Witness ==
    /\ feed_hist.last_data # 0
    /\ ~feed_hist.wrote
    /\ \E c \in Clients : pc[c] = "T_CALC" /\ energy[c] = feed_hist.last_data

====
